---- MODULE Spec2Model ----
(***************************************************************************)
(* Model of the live-telemetry layer of the drone telemetry dashboard:     *)
(*   useDroneTracks   (src/src/main.tsx)                 one stream per    *)
(*                    active drone, folded into track segments;            *)
(*   useLiveTelemetry (src/src/hooks/useLiveTelemetry.ts) one stream for   *)
(*                    the observed drone, with polling fallback, a         *)
(*                    bounded history and a staleness flag.                *)
(* The two hooks share no state.  A behaviour renders one of them: Init    *)
(* mounts either useDroneTracks or useLiveTelemetry and leaves the other   *)
(* unmounted, where none of its handlers can run.                          *)
(*                                                                         *)
(* The browser's WebSocket is modelled by its readyState: CONNECTING ->    *)
(* OPEN -> CLOSING -> CLOSED.  close() on a CONNECTING or OPEN socket      *)
(* makes it CLOSING and the close event follows later; a failure or a      *)
(* close by the server makes it CLOSED and fires error (on failure) and    *)
(* close in the same task; message events are delivered only while the     *)
(* socket is OPEN.  Every handler runs to completion (one event loop).     *)
(***************************************************************************)
EXTENDS Integers, Sequences, FiniteSets, TLC

\* ------------------------------------------------------------------ bounds
MaxRefresh == 2     \* snapshot refreshes that re-run the reconcile effect
MaxFail == 2        \* connections that fail or are closed by the server
MaxMsg == 1         \* stream messages delivered
MaxSwitch == 2      \* changes of the observed drone
MaxTrackMsg == 3    \* messages folded into tracks by SpecUpsert
MaxOverflow == 3    \* samples SpecHistory accepts beyond HISTORY_POINTS
MaxTrimOverflow == 3 \* points SpecTrim records beyond MAX_POINTS_PER_DRONE
MaxViewMsg == 2     \* stream messages SpecView delivers
MaxPoll == 1        \* poll results SpecView delivers

\* --------------------------------------------------------- program constants
STALE_THRESHOLD_MS == 10000
RECONNECT_MAX_DELAY_MS == 10000
RECONNECT_BASE_DELAY_MS == 1000
HISTORY_POINTS == 120
MAX_POINTS_PER_DRONE == 800

Max(a, b) == IF a >= b THEN a ELSE b
Min(a, b) == IF a <= b THEN a ELSE b
Abs(a) == IF a < 0 THEN -a ELSE a

SEGMENT_GAP_SECONDS == Max(20, STALE_THRESHOLD_MS \div 1000)

\* The drones of the fleet, in the order the snapshot lists them.
DroneIds == <<"D1", "D2">>
Drones == {DroneIds[i] : i \in 1..Len(DroneIds)}
\* droneId === null
NoDrone == "null"
\* status of a DroneSummary; "absent": the drone is not in the snapshot
Statuses == {"online", "offline", "absent"}

VARIABLES
    socks,        \* the WebSockets not yet CLOSED: id -> [drone, rs, eff]
    nextSock,     \* identity of the next WebSocket constructed
    \* useDroneTracks
    dtMounted,    \* the hook is rendered
    tracks,       \* useState tracks: droneId -> segments
    lastPoints,   \* useState lastPoints: droneId -> TrackPoint
    socketsRef,   \* socketsRef.current: droneId -> socket id or NullSock
    retriesRef,   \* retriesRef.current: droneId -> attempts
    activeIdsRef, \* activeIdsRef.current
    dtTimers,     \* pending window.setTimeout callbacks of ws.onclose
    \* useLiveTelemetry
    ltMounted,      \* the hook is rendered
    droneId,        \* the droneId prop: the observed drone, or NoDrone
    streamState,    \* useState streamState
    wsError,        \* useState wsError
    latestByDrone,  \* useState latestByDrone: droneId -> Telemetry
    historyByDrone, \* useState historyByDrone: droneId -> history points
    retryCountRef,  \* retryCountRef.current
    wsRef,          \* wsRef.current: socket id or NullSock
    ltEffect,       \* the instance of the subscription effect that ran last
    cancelled,      \* the effect instances whose closure has cancelled = true
    ltTimers,       \* pending setTimeout(connect, delay) callbacks
    queryData,      \* the query cache of latestQuery: droneId -> Telemetry
    \* history of the run, read by the properties only
    lastMsg,        \* the last message event: its socket, its data, the clock, and
                    \* whether it repeats the message event before it
    streak,         \* droneId -> reconnects scheduled since a socket of it last opened
    accepted,       \* droneId -> the history points of its accepted samples, in order
    \* App
    selectedId,     \* the drone the user selected, NoDrone before any selection
    dronesData,     \* data of the drones query: <<>> until loaded, then <<snapshot>>
    \* environment budget
    nRefresh, nFail, nMsg, nSwitch, nPoll

dtVars == <<dtMounted, tracks, lastPoints, socketsRef, retriesRef, activeIdsRef, dtTimers>>
ltVars == <<ltMounted, droneId, streamState, wsError, latestByDrone, historyByDrone,
            retryCountRef, wsRef, ltEffect, cancelled, ltTimers, queryData>>
appVars == <<selectedId, dronesData>>
vars == <<socks, nextSock, dtVars, ltVars, appVars, lastMsg, streak, accepted,
          nRefresh, nFail, nMsg, nSwitch, nPoll>>

\* socketsRef.current[droneId] = null
NullSock == 0

\* ws.readyState; a socket that left `socks` is CLOSED
ReadyState(S, c) == IF c \in DOMAIN S THEN S[c].rs ELSE "CLOSED"

\* new WebSocket(url), for the drone and the effect instance of the closure
NewSocket(d, e) == [drone |-> d, rs |-> "CONNECTING", eff |-> e]

\* ws.close(): only a CONNECTING or OPEN socket starts the closing handshake
CloseSock(S, c) ==
    IF ReadyState(S, c) \in {"CONNECTING", "OPEN"}
    THEN [S EXCEPT ![c].rs = "CLOSING"]
    ELSE S

\* obj[k] = v on a JS object used as a map
Put(obj, k, v) == [x \in DOMAIN obj \cup {k} |-> IF x = k THEN v ELSE obj[x]]
\* delete obj[k]
Delete(obj, k) == [x \in DOMAIN obj \ {k} |-> obj[x]]
Empty == [x \in {} |-> 0]

\* ------------------------------------------------------------ stream payloads
\* event.data is text.  [json |-> "invalid"]: JSON.parse throws;
\* [json |-> "null"]: it parses to null; [json |-> "number"]: it parses to a number
\* (a value that is not an object, whose properties all read undefined);
\* [json |-> "object", obj |-> o]: it parses to the object o, a function from the
\* keys present to their values.
Has(o, k) == k \in DOMAIN o
\* o.a?.b is defined
Has2(o, a, b) == Has(o, a) /\ b \in DOMAIN o[a]

\* The JSON null of a numeric field: the numbers of the payloads are never negative.
Null == -1
\* o.k is neither undefined nor null: what `??` and `!= null` test
Defined(o, k) == Has(o, k) /\ o[k] # Null
\* Defined2 that also takes 0 for missing
Defined2_Truthy(o, a, b) == Has2(o, a, b) /\ o[a][b] # Null /\ o[a][b] # 0

\* o.a?.b is neither undefined nor null
Defined2(o, a, b) == Has2(o, a, b) /\ o[a][b] # Null

\* normalizeTelemetry(raw): a key of the result is present iff its value is not
\* undefined (it may be null)
NT_Timestamp(raw) ==
    IF Defined(raw, "source_timestamp") THEN [timestamp |-> raw.source_timestamp]
    ELSE IF Has(raw, "last_seen_ts") THEN [timestamp |-> raw.last_seen_ts] ELSE Empty

NT_Received(raw) ==
    IF Defined(raw, "received_timestamp")
    THEN [received_timestamp |-> raw.received_timestamp]
    ELSE IF Has(raw, "last_seen_ts") THEN [received_timestamp |-> raw.last_seen_ts]
    ELSE Empty

\* gps_fix: true means GPS OK, false means lost
NT_GpsFix(raw) ==
    IF Has2(raw, "flags", "gps_lost") THEN [gps_fix |-> ~raw.flags.gps_lost] ELSE Empty

normalizeTelemetry(raw) ==
    (IF Has(raw, "id") THEN [drone_id |-> raw.id] ELSE Empty)
    @@ NT_Timestamp(raw) @@ NT_Received(raw)
    @@ (IF Has2(raw, "position", "lat") THEN [latitude |-> raw.position.lat] ELSE Empty)
    @@ (IF Has2(raw, "position", "lon") THEN [longitude |-> raw.position.lon] ELSE Empty)
    @@ (IF Has2(raw, "position", "alt_m")
        THEN [absolute_altitude_m |-> raw.position.alt_m] ELSE Empty)
    @@ (IF Defined2(raw, "battery", "pct") THEN [battery_percentage |-> raw.battery.pct]
        ELSE Empty)
    @@ (IF Has(raw, "flight_mode") THEN [flight_mode |-> raw.flight_mode] ELSE Empty)
    @@ (IF Defined2(raw, "derived", "heading_deg")
        THEN [heading_deg |-> raw.derived.heading_deg] ELSE Empty)
    @@ (IF Defined2(raw, "derived", "ground_speed_mps")
        THEN [ground_speed_mps |-> raw.derived.ground_speed_mps] ELSE Empty)
    @@ (IF Defined2(raw, "derived", "climb_rate_mps")
        THEN [climb_rate_mps |-> raw.derived.climb_rate_mps] ELSE Empty)
    @@ NT_GpsFix(raw)
    @@ (IF Has2(raw, "flags", "is_emergency")
        THEN [is_emergency |-> raw.flags.is_emergency] ELSE Empty)

\* ------------------------------------------------------------ track accumulation
SumLen(segments) ==
    LET RECURSIVE Sum(_)
        Sum(i) == IF i > Len(segments) THEN 0 ELSE Len(segments[i]) + Sum(i + 1)
    IN  Sum(1)

\* trimSegments(segments)
RECURSIVE TrimLoop(_, _)
TrimLoop(cloned, totalPoints) ==
    IF Len(cloned) = 0 \/ totalPoints <= MAX_POINTS_PER_DRONE THEN cloned
    ELSE LET head == cloned[1]
             overflow == totalPoints - MAX_POINTS_PER_DRONE
         IN  IF Len(head) <= overflow
             THEN TrimLoop(Tail(cloned), totalPoints - Len(head))
             ELSE TrimLoop(<<SubSeq(head, overflow + 1, Len(head))>> \o Tail(cloned),
                           totalPoints - overflow)

\* trimSegments that drops the newest points: the first 800 are kept
RECURSIVE TrimTail(_, _)
TrimTail(cloned, totalPoints) ==
    IF Len(cloned) = 0 \/ totalPoints <= MAX_POINTS_PER_DRONE THEN cloned
    ELSE LET last == cloned[Len(cloned)]
             overflow == totalPoints - MAX_POINTS_PER_DRONE
         IN  IF Len(last) <= overflow
             THEN TrimTail(SubSeq(cloned, 1, Len(cloned) - 1), totalPoints - Len(last))
             ELSE TrimTail([cloned EXCEPT ![Len(cloned)] =
                                SubSeq(last, 1, Len(last) - overflow)],
                           totalPoints - overflow)

trimSegments_KeepOldest(segments) == TrimTail(segments, SumLen(segments))

trimSegments(segments) == TrimLoop(segments, SumLen(segments))

\* toTrackPoint(message, nowSeconds); <<>> stands for null
toTrackPoint(message, nowSeconds) ==
    LET ownLat == Defined(message, "latitude")
        ownLon == Defined(message, "longitude")
        hasLat == ownLat \/ Defined2(message, "position", "lat")
        hasLon == ownLon \/ Defined2(message, "position", "lon")
        lat == IF ownLat THEN message.latitude ELSE message.position.lat
        lon == IF ownLon THEN message.longitude ELSE message.position.lon
        t == IF Defined(message, "timestamp") THEN message.timestamp
             ELSE IF Defined(message, "received_timestamp")
                  THEN message.received_timestamp
             ELSE nowSeconds
    IN  IF ~hasLat \/ ~hasLon THEN <<>> ELSE <<[lat |-> lat, lon |-> lon, t |-> t]>>

\* shouldStartNewSegment without Math.abs
shouldStartNewSegment_Signed(last, next) == next.t - last.t > SEGMENT_GAP_SECONDS

\* shouldStartNewSegment that never starts a segment
shouldStartNewSegment_Never(last, next) == FALSE

\* shouldStartNewSegment(last, next), both present
shouldStartNewSegment(last, next) == Abs(next.t - last.t) > SEGMENT_GAP_SECONDS

\* upsertTrack without the duplicate check
upsertTrack_NoDedup(prev, dId, point) ==
    LET segments == IF dId \in DOMAIN prev THEN prev[dId] ELSE <<>>
        hasLatest == Len(segments) > 0
        latestSegment == segments[Len(segments)]
        lastPoint == latestSegment[Len(latestSegment)]
        nextSegments ==
            IF ~hasLatest \/ Len(latestSegment) = 0
               \/ Abs(point.t - lastPoint.t) > SEGMENT_GAP_SECONDS
            THEN Append(segments, <<point>>)
            ELSE [segments EXCEPT ![Len(segments)] = Append(latestSegment, point)]
    IN  Put(prev, dId, nextSegments)

\* upsertTrack(prev, droneId, point)
upsertTrack(prev, dId, point) ==
    LET segments == IF dId \in DOMAIN prev THEN prev[dId] ELSE <<>>
        hasLatest == Len(segments) > 0
        latestSegment == segments[Len(segments)]
        hasLast == hasLatest /\ Len(latestSegment) > 0
        lastPoint == latestSegment[Len(latestSegment)]
    IN  IF hasLast /\ lastPoint.lat = point.lat /\ lastPoint.lon = point.lon
                   /\ lastPoint.t = point.t
        THEN prev
        ELSE LET nextSegments ==
                     IF ~hasLatest \/ Len(latestSegment) = 0
                        \/ shouldStartNewSegment(lastPoint, point)
                     THEN Append(segments, <<point>>)
                     ELSE [segments EXCEPT ![Len(segments)] = Append(latestSegment, point)]
             IN  Put(prev, dId, trimSegments(nextSegments))

\* an updater of lastPoints that keeps the point a drone already has
updateLastPoints_KeepFirst(prev, id, trackPoint) ==
    IF id \in DOMAIN prev THEN prev ELSE Put(prev, id, trackPoint)

\* the updater handed to setLastPoints
updateLastPoints(prev, id, trackPoint) ==
    IF id \in DOMAIN prev /\ prev[id].lat = trackPoint.lat /\ prev[id].lon = trackPoint.lon
       /\ prev[id].t = trackPoint.t
    THEN prev
    ELSE Put(prev, id, trackPoint)

\* normalizeTelemetryMessage(payload), payload an object; null is handled by the caller
normalizeTelemetryMessage(payload) ==
    IF Has(payload, "latitude") \/ Has(payload, "longitude") \/ Has(payload, "drone_id")
    THEN payload
    ELSE normalizeTelemetry(payload)

\* A message event, as the properties remember it.
NoMsg == [sock |-> NullSock, data |-> [json |-> "invalid"], now |-> 0, dup |-> FALSE]
MsgEvent(c, data, now) ==
    [sock |-> c, data |-> data, now |-> now,
     dup |-> lastMsg.sock = c /\ lastMsg.data = data /\ lastMsg.now = now]

\* ---------------------------------------------------------------- useDroneTracks

\* Math.min(RECONNECT_MAX_DELAY_MS, RECONNECT_BASE_DELAY_MS * 2 ** (attempt - 1))
BackoffDelay(attempt) ==
    Min(RECONNECT_MAX_DELAY_MS, RECONNECT_BASE_DELAY_MS * 2 ^ (attempt - 1))

\* connect(droneId), on the state C = [socks, ref, next]
DT_Connect(C, d) ==
    [socks |-> Put(C.socks, C.next, NewSocket(d, 0)),
     ref   |-> Put(C.ref, d, C.next),
     next  |-> C.next + 1]

\* the first loop of the reconcile effect, over the active ids in snapshot order
RECURSIVE DT_ConnectMissing(_, _, _)
DT_ConnectMissing(C, active, i) ==
    IF i > Len(DroneIds) THEN C
    ELSE LET id == DroneIds[i]
             existing == IF id \in DOMAIN C.ref THEN C.ref[id] ELSE NullSock
             live == /\ existing # NullSock
                     /\ ReadyState(C.socks, existing) \notin {"CLOSED", "CLOSING"}
         IN  IF id \notin active \/ live
             THEN DT_ConnectMissing(C, active, i + 1)
             ELSE DT_ConnectMissing(DT_Connect(C, id), active, i + 1)

\* drones.filter((d) => d.status !== 'offline').map((d) => d.id)
ActiveOf(drones) == {d \in Drones : drones[d] \notin {"offline", "absent"}}

\* The reconcile effect: runs when the drones prop changes.
DT_Reconcile(drones) ==
    /\ dtMounted
    /\ LET active == ActiveOf(drones)
           C == DT_ConnectMissing([socks |-> socks, ref |-> socketsRef, next |-> nextSock],
                                  active, 1)
           gone == {id \in DOMAIN C.ref : id \notin active /\ C.ref[id] # NullSock}
       IN  /\ activeIdsRef' = active
           /\ socks' = [c \in DOMAIN C.socks |->
                          IF \E id \in gone : C.ref[id] = c
                          THEN CloseSock(C.socks, c)[c] ELSE C.socks[c]]
           /\ socketsRef' = [id \in DOMAIN C.ref \ gone |-> C.ref[id]]
           /\ retriesRef' = [id \in DOMAIN retriesRef \ gone |-> retriesRef[id]]
           /\ nextSock' = C.next
    /\ nRefresh' = nRefresh + 1
    /\ UNCHANGED <<dtMounted, tracks, lastPoints, dtTimers, nFail, nMsg, nSwitch,
                   ltVars, lastMsg, streak, accepted, nPoll, appVars>>

\* DT_OnOpen that leaves the retry counter alone
DT_OnOpen_NoReset(c) ==
    /\ c \in DOMAIN socks /\ socks[c].eff = 0 /\ socks[c].rs = "CONNECTING"
    /\ socks' = [socks EXCEPT ![c].rs = "OPEN"]
    /\ retriesRef' = retriesRef
    /\ streak' = [streak EXCEPT ![socks[c].drone] = 0]
    /\ UNCHANGED <<nextSock, dtMounted, tracks, lastPoints, socketsRef, activeIdsRef,
                   dtTimers, nRefresh, nFail, nMsg, nSwitch, ltVars, lastMsg, accepted,
                   nPoll, appVars>>

\* ws.onopen
DT_OnOpen(c) ==
    /\ c \in DOMAIN socks /\ socks[c].eff = 0 /\ socks[c].rs = "CONNECTING"
    /\ socks' = [socks EXCEPT ![c].rs = "OPEN"]
    /\ retriesRef' = Put(retriesRef, socks[c].drone, 0)
    /\ streak' = [streak EXCEPT ![socks[c].drone] = 0]
    /\ UNCHANGED <<nextSock, dtMounted, tracks, lastPoints, socketsRef, activeIdsRef,
                   dtTimers, nRefresh, nFail, nMsg, nSwitch, ltVars, lastMsg, accepted,
                   nPoll, appVars>>

\* ws.onclose, for the socket c of drone d (c is CLOSED when it runs)
DT_OnClose(c, d) ==
    /\ socketsRef' = Put(socketsRef, d, NullSock)
    /\ IF d \notin activeIdsRef
       THEN UNCHANGED <<retriesRef, dtTimers, streak>>
       ELSE LET attempt == (IF d \in DOMAIN retriesRef THEN retriesRef[d] ELSE 0) + 1
            IN  /\ retriesRef' = Put(retriesRef, d, attempt)
                /\ streak' = [streak EXCEPT ![d] = @ + 1]
                /\ dtTimers' = dtTimers \cup
                       {[sock |-> c, drone |-> d, delay |-> BackoffDelay(attempt)]}

\* The connection fails or the server closes it: readyState becomes CLOSED, then
\* ws.onerror (whose ws.close() finds the socket CLOSED) and ws.onclose run.
DT_SockFail(c) ==
    /\ c \in DOMAIN socks /\ socks[c].eff = 0 /\ socks[c].rs \in {"CONNECTING", "OPEN"}
    /\ socks' = Delete(socks, c)
    /\ DT_OnClose(c, socks[c].drone)
    /\ nFail' = nFail + 1
    /\ UNCHANGED <<nextSock, dtMounted, tracks, lastPoints, activeIdsRef, nRefresh, nMsg,
                   nSwitch, ltVars, lastMsg, accepted, nPoll, appVars>>

\* The closing handshake started by ws.close() completes: ws.onclose runs.
DT_SockClosed(c) ==
    /\ c \in DOMAIN socks /\ socks[c].eff = 0 /\ socks[c].rs = "CLOSING"
    /\ socks' = Delete(socks, c)
    /\ DT_OnClose(c, socks[c].drone)
    /\ UNCHANGED <<nextSock, dtMounted, tracks, lastPoints, activeIdsRef, nRefresh,
                   nFail, nMsg, nSwitch, ltVars, lastMsg, accepted, nPoll, appVars>>

\* DT_TimerFire without the activeIdsRef check at fire time
DT_TimerFire_Unchecked(t) ==
    /\ t \in dtTimers
    /\ dtTimers' = dtTimers \ {t}
    /\ LET C == DT_Connect([socks |-> socks, ref |-> socketsRef, next |-> nextSock],
                           t.drone)
       IN  socks' = C.socks /\ socketsRef' = C.ref /\ nextSock' = C.next
    /\ UNCHANGED <<dtMounted, tracks, lastPoints, retriesRef, activeIdsRef, nRefresh,
                   nFail, nMsg, nSwitch, ltVars, lastMsg, streak, accepted, nPoll, appVars>>

\* DT_TimerFire that never reconnects
DT_TimerFire_Dropped(t) ==
    /\ t \in dtTimers
    /\ dtTimers' = dtTimers \ {t}
    /\ UNCHANGED <<socks, socketsRef, nextSock>>
    /\ UNCHANGED <<dtMounted, tracks, lastPoints, retriesRef, activeIdsRef, nRefresh,
                   nFail, nMsg, nSwitch, ltVars, lastMsg, streak, accepted, nPoll, appVars>>

\* The window.setTimeout callback scheduled by ws.onclose
DT_TimerFire(t) ==
    /\ t \in dtTimers
    /\ dtTimers' = dtTimers \ {t}
    /\ IF t.drone \in activeIdsRef
       THEN LET C == DT_Connect([socks |-> socks, ref |-> socketsRef, next |-> nextSock],
                                t.drone)
            IN  socks' = C.socks /\ socketsRef' = C.ref /\ nextSock' = C.next
       ELSE UNCHANGED <<socks, socketsRef, nextSock>>
    /\ UNCHANGED <<dtMounted, tracks, lastPoints, retriesRef, activeIdsRef, nRefresh,
                   nFail, nMsg, nSwitch, ltVars, lastMsg, streak, accepted, nPoll, appVars>>

\* ws.onmessage of the socket opened for droneId (dId)
DT_HandleMessage(dId, data, nowSeconds) ==
    IF data.json # "object"
    THEN UNCHANGED <<tracks, lastPoints>>
    ELSE LET parsed == data.obj
             normalized == normalizeTelemetryMessage(parsed)
             id == IF Has(normalized, "drone_id") THEN normalized.drone_id
                   ELSE IF Has(parsed, "id") THEN parsed.id ELSE dId
             trackPoint == toTrackPoint(normalized, nowSeconds)
         IN  IF id = "" \/ trackPoint = <<>>
             THEN UNCHANGED <<tracks, lastPoints>>
             ELSE /\ tracks' = IF dtMounted THEN upsertTrack(tracks, id, trackPoint[1])
                                ELSE tracks
                  /\ lastPoints' = IF dtMounted
                                    THEN updateLastPoints(lastPoints, id, trackPoint[1])
                                    ELSE lastPoints

DT_OnMessage(c, data, nowSeconds) ==
    /\ c \in DOMAIN socks /\ socks[c].eff = 0 /\ socks[c].rs = "OPEN"
    /\ DT_HandleMessage(socks[c].drone, data, nowSeconds)
    /\ lastMsg' = MsgEvent(c, data, nowSeconds)
    /\ nMsg' = nMsg + 1
    /\ UNCHANGED <<socks, nextSock, dtMounted, socketsRef, retriesRef, activeIdsRef,
                   dtTimers, nRefresh, nFail, nSwitch, ltVars, streak, accepted, nPoll,
                   appVars>>

\* The unmount effect's cleanup
DT_Unmount ==
    /\ dtMounted
    /\ dtMounted' = FALSE
    /\ activeIdsRef' = {}
    /\ socks' = [c \in DOMAIN socks |->
                   IF \E id \in DOMAIN socketsRef : socketsRef[id] = c
                   THEN CloseSock(socks, c)[c] ELSE socks[c]]
    /\ UNCHANGED <<nextSock, tracks, lastPoints, socketsRef, retriesRef, dtTimers,
                   nRefresh, nFail, nMsg, nSwitch, ltVars, lastMsg, streak, accepted,
                   nPoll, appVars>>

\* ---------------------------------------------------------------- useLiveTelemetry

\* setState of a component that is no longer mounted changes nothing
SetState(current, value) == IF ltMounted THEN value ELSE current

\* refetchInterval of latestQuery: 0 stands for false (no periodic refetch)
RefetchInterval == IF streamState = "open" THEN 0 ELSE 5000

\* the point appended to the history for a normalized message
HistoryPoint(message, nowMs) ==
    [t |-> IF Defined(message, "timestamp") THEN message.timestamp * 1000
           ELSE IF Defined(message, "received_timestamp")
                THEN message.received_timestamp * 1000
           ELSE nowMs]
    @@ (IF Has(message, "absolute_altitude_m")
        THEN [altitude |-> message.absolute_altitude_m] ELSE Empty)
    @@ (IF Has(message, "battery_percentage")
        THEN [battery |-> message.battery_percentage] ELSE Empty)

\* AppendHistory that keeps the oldest points: slice(0, HISTORY_POINTS)
AppendHistory_KeepOldest(current, point) ==
    LET all == Append(current, point)
    IN  IF Len(all) <= HISTORY_POINTS THEN all ELSE SubSeq(all, 1, HISTORY_POINTS)

\* [...current, point].slice(-HISTORY_POINTS)
AppendHistory(current, point) ==
    LET all == Append(current, point)
    IN  IF Len(all) <= HISTORY_POINTS THEN all
        ELSE SubSeq(all, Len(all) - HISTORY_POINTS + 1, Len(all))

\* connect() of effect instance e, whose closure holds drone d
LT_Connect(d, e) ==
    /\ streamState' = SetState(streamState, "connecting")
    /\ socks' = Put(socks, nextSock, NewSocket(d, e))
    /\ wsRef' = nextSock
    /\ nextSock' = nextSock + 1

\* LT_SetDroneId that discards the stored samples and histories
LT_SetDroneId_Reset(d) ==
    /\ ltMounted /\ d # droneId
    /\ droneId' = d
    /\ cancelled' = IF droneId # NoDrone THEN cancelled \cup {ltEffect} ELSE cancelled
    /\ LET closed == IF droneId # NoDrone /\ wsRef # NullSock
                     THEN CloseSock(socks, wsRef) ELSE socks
       IN  IF d = NoDrone
           THEN /\ socks' = closed
                /\ UNCHANGED <<streamState, wsRef, nextSock, ltEffect>>
           ELSE /\ ltEffect' = ltEffect + 1
                /\ streamState' = "connecting"
                /\ socks' = Put(closed, nextSock, NewSocket(d, ltEffect + 1))
                /\ wsRef' = nextSock
                /\ nextSock' = nextSock + 1
    /\ nSwitch' = nSwitch + 1
    /\ latestByDrone' = Empty /\ historyByDrone' = Empty
    /\ UNCHANGED <<wsError, retryCountRef, ltMounted,
                   ltTimers, nRefresh, nFail, nMsg, dtVars, lastMsg, streak, accepted,
                   queryData, nPoll, appVars>>

\* The droneId prop changes: the cleanup of the last effect instance runs (if it
\* returned one), then the effect runs for the new droneId.
LT_SetDroneId(d) ==
    /\ ltMounted /\ d # droneId
    /\ droneId' = d
    /\ cancelled' = IF droneId # NoDrone THEN cancelled \cup {ltEffect} ELSE cancelled
    /\ LET closed == IF droneId # NoDrone /\ wsRef # NullSock
                     THEN CloseSock(socks, wsRef) ELSE socks
       IN  IF d = NoDrone
           THEN /\ socks' = closed
                /\ UNCHANGED <<streamState, wsRef, nextSock, ltEffect>>
           ELSE /\ ltEffect' = ltEffect + 1
                /\ streamState' = "connecting"
                /\ socks' = Put(closed, nextSock, NewSocket(d, ltEffect + 1))
                /\ wsRef' = nextSock
                /\ nextSock' = nextSock + 1
    /\ nSwitch' = nSwitch + 1
    /\ UNCHANGED <<wsError, latestByDrone, historyByDrone, retryCountRef, ltMounted,
                   ltTimers, nRefresh, nFail, nMsg, dtVars, lastMsg, streak, accepted,
                   queryData, nPoll, appVars>>

\* The component unmounts: the cleanup of the last effect instance runs.
LT_Unmount ==
    /\ ltMounted
    /\ ltMounted' = FALSE
    /\ cancelled' = IF droneId # NoDrone THEN cancelled \cup {ltEffect} ELSE cancelled
    /\ socks' = IF droneId # NoDrone /\ wsRef # NullSock
                THEN CloseSock(socks, wsRef) ELSE socks
    /\ UNCHANGED <<nextSock, droneId, streamState, wsError, latestByDrone, historyByDrone,
                   retryCountRef, wsRef, ltEffect, ltTimers, nRefresh, nFail, nMsg,
                   nSwitch, dtVars, lastMsg, streak, accepted, queryData, nPoll, appVars>>

\* ws.onopen
LT_OnOpen(c) ==
    /\ c \in DOMAIN socks /\ socks[c].eff # 0 /\ socks[c].rs = "CONNECTING"
    /\ socks' = [socks EXCEPT ![c].rs = "OPEN"]
    /\ retryCountRef' = 0
    /\ streak' = [streak EXCEPT ![socks[c].drone] = 0]
    /\ streamState' = SetState(streamState, "open")
    /\ wsError' = SetState(wsError, "null")
    /\ UNCHANGED <<nextSock, ltMounted, droneId, latestByDrone, historyByDrone, wsRef,
                   ltEffect, cancelled, ltTimers, nRefresh, nFail, nMsg, nSwitch, dtVars,
                   lastMsg, accepted, queryData, nPoll, appVars>>

\* ws.onclose of a socket of effect instance e for drone d
LT_OnClose(d, e) ==
    /\ streamState' = SetState(streamState, "closed")
    /\ IF e \in cancelled
       THEN UNCHANGED <<retryCountRef, ltTimers, streak>>
       ELSE /\ retryCountRef' = retryCountRef + 1
            /\ streak' = [streak EXCEPT ![d] = @ + 1]
            /\ ltTimers' = ltTimers \cup
                   {[eff |-> e, drone |-> d, delay |-> BackoffDelay(retryCountRef + 1)]}

\* The connection fails (error, then close) or the server closes it (close only).
LT_SockFail(c, failed) ==
    /\ c \in DOMAIN socks /\ socks[c].eff # 0 /\ socks[c].rs \in {"CONNECTING", "OPEN"}
    /\ socks' = Delete(socks, c)
    /\ wsError' = IF failed THEN SetState(wsError, "WebSocket error") ELSE wsError
    /\ LT_OnClose(socks[c].drone, socks[c].eff)
    /\ nFail' = nFail + 1
    /\ UNCHANGED <<nextSock, ltMounted, droneId, latestByDrone, historyByDrone, wsRef,
                   ltEffect, cancelled, nRefresh, nMsg, nSwitch, dtVars,
                   lastMsg, accepted, queryData, nPoll, appVars>>

\* The closing handshake started by ws.close() completes: ws.onclose runs.
LT_SockClosed(c) ==
    /\ c \in DOMAIN socks /\ socks[c].eff # 0 /\ socks[c].rs = "CLOSING"
    /\ socks' = Delete(socks, c)
    /\ LT_OnClose(socks[c].drone, socks[c].eff)
    /\ UNCHANGED <<nextSock, ltMounted, droneId, wsError, latestByDrone, historyByDrone,
                   wsRef, ltEffect, cancelled, nRefresh, nFail, nMsg, nSwitch, dtVars,
                   lastMsg, accepted, queryData, nPoll, appVars>>

\* The setTimeout(connect, delay) callback scheduled by ws.onclose
LT_TimerFire(t) ==
    /\ t \in ltTimers
    /\ ltTimers' = ltTimers \ {t}
    /\ LT_Connect(t.drone, t.eff)
    /\ UNCHANGED <<ltMounted, droneId, wsError, latestByDrone, historyByDrone,
                   retryCountRef, ltEffect, cancelled, nRefresh, nFail, nMsg, nSwitch,
                   dtVars, lastMsg, streak, accepted, queryData, nPoll, appVars>>

\* ws.onmessage of a socket opened for drone d
LT_HandleMessage(d, data, nowMs) ==
    IF data.json \in {"invalid", "null"}
    THEN /\ wsError' = SetState(wsError, "Unable to parse telemetry message")
         /\ UNCHANGED <<latestByDrone, historyByDrone, accepted>>
    ELSE LET raw == IF data.json = "object" THEN data.obj ELSE Empty
             message == normalizeTelemetry(raw)
             current == IF d \in DOMAIN historyByDrone THEN historyByDrone[d] ELSE <<>>
         IN  /\ latestByDrone' = SetState(latestByDrone, Put(latestByDrone, d, message))
             /\ historyByDrone' =
                    SetState(historyByDrone,
                             Put(historyByDrone, d,
                                 AppendHistory(current, HistoryPoint(message, nowMs))))
             /\ accepted' = [accepted EXCEPT ![d] = Append(@, HistoryPoint(message, nowMs))]
             /\ UNCHANGED wsError

LT_OnMessage(c, data, nowMs) ==
    /\ c \in DOMAIN socks /\ socks[c].eff # 0 /\ socks[c].rs = "OPEN"
    /\ LT_HandleMessage(socks[c].drone, data, nowMs)
    /\ lastMsg' = MsgEvent(c, data, nowMs)
    /\ nMsg' = nMsg + 1
    /\ UNCHANGED <<socks, nextSock, ltMounted, droneId, streamState, retryCountRef, wsRef,
                   ltEffect, cancelled, ltTimers, nRefresh, nFail, nSwitch, dtVars,
                   streak, queryData, nPoll, appVars>>

\* The fetch of latestQuery for the observed drone resolves with the body raw:
\* getLatestTelemetry normalizes it and the query cache keeps it under the drone's key.
LT_PollResult(raw) ==
    /\ ltMounted /\ droneId # NoDrone
    /\ queryData' = Put(queryData, droneId, normalizeTelemetry(raw))
    /\ nPoll' = nPoll + 1
    /\ UNCHANGED <<socks, nextSock, ltMounted, droneId, streamState, wsError,
                   latestByDrone, historyByDrone, retryCountRef, wsRef, ltEffect,
                   cancelled, ltTimers, nRefresh, nFail, nMsg, nSwitch, dtVars, lastMsg,
                   streak, accepted, appVars>>

\* What the hook returns.  A value that may be undefined is <<>> (undefined) or <<v>>.
\* latestQuery.data
latestQueryData ==
    IF droneId # NoDrone /\ droneId \in DOMAIN queryData THEN <<queryData[droneId]>>
    ELSE <<>>

latest ==
    IF droneId # NoDrone /\ droneId \in DOMAIN latestByDrone
    THEN <<latestByDrone[droneId]>> ELSE <<>>

history ==
    IF droneId # NoDrone /\ droneId \in DOMAIN historyByDrone
    THEN historyByDrone[droneId] ELSE <<>>

\* telemetry that prefers the polled sample: latestQuery.data ?? latest
telemetry_PollFirst == IF latestQueryData # <<>> THEN latestQueryData ELSE latest

\* latest ?? latestQuery.data
telemetry == IF latest # <<>> THEN latest ELSE latestQueryData

\* o.k is truthy, for a numeric field
Truthy(o, k) == Defined(o, k) /\ o[k] # 0

lastUpdateMs ==
    IF telemetry = <<>> THEN <<>>
    ELSE IF Truthy(telemetry[1], "timestamp") THEN <<telemetry[1].timestamp * 1000>>
    ELSE IF Truthy(telemetry[1], "received_timestamp")
         THEN <<telemetry[1].received_timestamp * 1000>>
    ELSE <<>>

seededHistory ==
    IF Len(history) > 0 THEN history
    ELSE IF latestQueryData # <<>>
    THEN LET data == latestQueryData[1]
         IN  <<[t |-> (IF Defined(data, "timestamp") THEN data.timestamp
                       ELSE IF Defined(data, "received_timestamp")
                            THEN data.received_timestamp
                       ELSE 0) * 1000]
               @@ (IF Has(data, "absolute_altitude_m")
                   THEN [altitude |-> data.absolute_altitude_m] ELSE Empty)
               @@ (IF Has(data, "battery_percentage")
                   THEN [battery |-> data.battery_percentage] ELSE Empty)>>
    ELSE <<>>

isStale(currentTimeMs) ==
    IF lastUpdateMs # <<>> THEN currentTimeMs - lastUpdateMs[1] > STALE_THRESHOLD_MS
    ELSE TRUE

\* DroneDetailPanel, for the telemetry the hook returns and the summary of the
\* drone list: the values of the statistics row, <<>> where it shows a dash.
getNumericValue(o, k) == IF o # <<>> /\ Defined(o[1], k) THEN <<o[1][k]>> ELSE <<>>

heading == getNumericValue(telemetry, "heading_deg")
groundSpeed == getNumericValue(telemetry, "ground_speed_mps")
climb == getNumericValue(telemetry, "climb_rate_mps")

altitude(summary) ==
    IF telemetry # <<>> /\ Defined(telemetry[1], "absolute_altitude_m")
    THEN <<telemetry[1].absolute_altitude_m>>
    ELSE IF Defined2(summary, "position", "alt_m") THEN <<summary.position.alt_m>>
    ELSE <<>>

battery(summary) ==
    IF telemetry # <<>> /\ Defined(telemetry[1], "battery_percentage")
    THEN <<telemetry[1].battery_percentage>>
    ELSE IF Defined(summary, "battery_pct") THEN <<summary.battery_pct>>
    ELSE <<>>

\* ---------------------------------------------------------------- specification

\* The state after the first render and its effects; `hook` is the hook rendered.
InitHooks(tracksMounted, liveMounted) ==
    /\ socks = Empty /\ nextSock = 1
    /\ dtMounted = tracksMounted
    /\ tracks = Empty /\ lastPoints = Empty
    /\ socketsRef = Empty /\ retriesRef = Empty
    /\ activeIdsRef = {} /\ dtTimers = {}
    /\ ltMounted = liveMounted
    /\ droneId = NoDrone /\ streamState = "idle" /\ wsError = "null"
    /\ latestByDrone = Empty /\ historyByDrone = Empty
    /\ retryCountRef = 0 /\ wsRef = NullSock
    /\ ltEffect = 0 /\ cancelled = {} /\ ltTimers = {}
    /\ queryData = Empty /\ nPoll = 0
    /\ lastMsg = NoMsg /\ streak = [d \in Drones |-> 0]
    /\ accepted = [d \in Drones |-> <<>>]
    /\ selectedId = NoDrone /\ dronesData = <<>>
    /\ nRefresh = 0 /\ nFail = 0 /\ nMsg = 0 /\ nSwitch = 0

Init == InitHooks(TRUE, FALSE) \/ InitHooks(FALSE, TRUE)

\* Date.now(), in seconds and in milliseconds
NowSeconds == {100}
NowMs == {100000}

\* the texts the streams deliver
Payloads ==
    { [json |-> "invalid"],
      [json |-> "object", obj |-> [latitude |-> 1, longitude |-> 1, timestamp |-> 90]],
      [json |-> "object",
       obj |-> [id |-> "D1", position |-> [lat |-> 2, lon |-> 2, alt_m |-> 0]]] }

\* The connection lifecycle of useDroneTracks: every event but the messages.
ConnTracks ==
    \/ \E drones \in [Drones -> Statuses] : nRefresh < MaxRefresh /\ DT_Reconcile(drones)
    \/ \E c \in DOMAIN socks : DT_OnOpen(c)
    \/ \E c \in DOMAIN socks : nFail < MaxFail /\ DT_SockFail(c)
    \/ \E c \in DOMAIN socks : DT_SockClosed(c)
    \/ \E t \in dtTimers : DT_TimerFire(t)
    \/ DT_Unmount

\* The connection lifecycle of useLiveTelemetry: every event but the messages.
ConnLive ==
    \/ \E d \in Drones \cup {NoDrone} : nSwitch < MaxSwitch /\ LT_SetDroneId(d)
    \/ \E c \in DOMAIN socks : LT_OnOpen(c)
    \/ \E c \in DOMAIN socks, failed \in BOOLEAN : nFail < MaxFail /\ LT_SockFail(c, failed)
    \/ \E c \in DOMAIN socks : LT_SockClosed(c)
    \/ \E t \in ltTimers : LT_TimerFire(t)
    \/ LT_Unmount

MsgTracks ==
    \E c \in DOMAIN socks, data \in Payloads, now \in NowSeconds :
        nMsg < MaxMsg /\ DT_OnMessage(c, data, now)

MsgLive ==
    \E c \in DOMAIN socks, data \in Payloads, now \in NowMs :
        nMsg < MaxMsg /\ LT_OnMessage(c, data, now)

Next == ConnTracks \/ ConnLive \/ MsgTracks \/ MsgLive

\* Both hooks, every event.
Spec == Init /\ [][Next]_vars

NextConn == ConnTracks \/ ConnLive

\* Both hooks, the connection lifecycle alone.
SpecConn == Init /\ [][NextConn]_vars

\* ---------------------------------------------------------------- SpecUpsert
\* useDroneTracks with both drones active and their sockets open, receiving messages.
InitUpsert ==
    /\ socks = (1 :> [drone |-> "D1", rs |-> "OPEN", eff |-> 0])
               @@ (2 :> [drone |-> "D2", rs |-> "OPEN", eff |-> 0])
    /\ nextSock = 3
    /\ dtMounted = TRUE
    /\ tracks = Empty /\ lastPoints = Empty
    /\ socketsRef = [d \in Drones |-> IF d = "D1" THEN 1 ELSE 2]
    /\ retriesRef = [d \in Drones |-> 0]
    /\ activeIdsRef = Drones /\ dtTimers = {}
    /\ ltMounted = FALSE
    /\ droneId = NoDrone /\ streamState = "idle" /\ wsError = "null"
    /\ latestByDrone = Empty /\ historyByDrone = Empty
    /\ retryCountRef = 0 /\ wsRef = NullSock
    /\ ltEffect = 0 /\ cancelled = {} /\ ltTimers = {}
    /\ queryData = Empty /\ nPoll = 0
    /\ lastMsg = NoMsg /\ streak = [d \in Drones |-> 0]
    /\ accepted = [d \in Drones |-> <<>>]
    /\ selectedId = NoDrone /\ dronesData = <<>>
    /\ nRefresh = 1 /\ nFail = 0 /\ nMsg = 0 /\ nSwitch = 0

\* the positions the streams report, in and out of time order, with gaps at, below
\* and above SEGMENT_GAP_SECONDS
TrackPayloads ==
    { [json |-> "object", obj |-> [latitude |-> la, longitude |-> 0, timestamp |-> t]] :
        la \in {0, 1}, t \in {0, 20, 41} }
    \cup
    { [json |-> "invalid"],
      [json |-> "object", obj |-> [drone_id |-> "D1"]],
      [json |-> "object", obj |-> [latitude |-> 1, longitude |-> 1]],
      [json |-> "object",
       obj |-> [id |-> "D2", position |-> [lat |-> 0, lon |-> 0], last_seen_ts |-> 41]] }

NextUpsert ==
    \E c \in DOMAIN socks, data \in TrackPayloads, now \in NowSeconds :
        nMsg < MaxTrackMsg /\ DT_OnMessage(c, data, now)

SpecUpsert == InitUpsert /\ [][NextUpsert]_vars

\* ---------------------------------------------------------------- SpecHistory
\* useLiveTelemetry observing D1 over an open socket, receiving messages.
InitHistory ==
    /\ socks = (1 :> [drone |-> "D1", rs |-> "OPEN", eff |-> 1])
    /\ nextSock = 2
    /\ dtMounted = FALSE
    /\ tracks = Empty /\ lastPoints = Empty
    /\ socketsRef = Empty /\ retriesRef = Empty
    /\ activeIdsRef = {} /\ dtTimers = {}
    /\ ltMounted = TRUE
    /\ droneId = "D1" /\ streamState = "open" /\ wsError = "null"
    /\ latestByDrone = Empty /\ historyByDrone = Empty
    /\ retryCountRef = 0 /\ wsRef = 1
    /\ ltEffect = 1 /\ cancelled = {} /\ ltTimers = {}
    /\ queryData = Empty /\ nPoll = 0
    /\ lastMsg = NoMsg /\ streak = [d \in Drones |-> 0]
    /\ accepted = [d \in Drones |-> <<>>]
    /\ selectedId = NoDrone /\ dronesData = <<>>
    /\ nRefresh = 0 /\ nFail = 0 /\ nMsg = 0 /\ nSwitch = 1

\* the i-th sample the stream of SpecHistory delivers: the shapes alternate
HistorySample(i) ==
    [json |-> "object",
     obj |-> CASE i % 4 = 0 -> [source_timestamp |-> i,
                                position |-> [alt_m |-> i % 3],
                                battery |-> [pct |-> i % 2]]
               [] i % 4 = 1 -> [last_seen_ts |-> i]
               [] i % 4 = 2 -> [received_timestamp |-> i, battery |-> [pct |-> 0]]
               [] OTHER -> [position |-> [alt_m |-> i]]]

\* the next sample, or a text that is not JSON
NextHistory ==
    \E c \in DOMAIN socks, now \in NowMs,
       data \in {HistorySample(Len(accepted["D1"]) + 1), [json |-> "invalid"]} :
        /\ Len(accepted["D1"]) < HISTORY_POINTS + MaxOverflow
        /\ nMsg < HISTORY_POINTS + 2 * MaxOverflow
        /\ LT_OnMessage(c, data, now)

SpecHistory == InitHistory /\ [][NextHistory]_vars

\* The connection lifecycle, with every scheduled timer firing eventually.
FairConn ==
    /\ SpecConn
    /\ WF_vars(\E t \in dtTimers : DT_TimerFire(t))
    /\ WF_vars(\E t \in ltTimers : LT_TimerFire(t))

\* ---------------------------------------------------------------- SpecTrim
\* useDroneTracks with D1 active and its socket open, receiving the positions of a
\* steadily moving drone until its track passes MAX_POINTS_PER_DRONE.
InitTrim ==
    /\ socks = (1 :> [drone |-> "D1", rs |-> "OPEN", eff |-> 0])
    /\ nextSock = 2
    /\ dtMounted = TRUE
    /\ tracks = Empty /\ lastPoints = Empty
    /\ socketsRef = ("D1" :> 1)
    /\ retriesRef = ("D1" :> 0)
    /\ activeIdsRef = {"D1"} /\ dtTimers = {}
    /\ ltMounted = FALSE
    /\ droneId = NoDrone /\ streamState = "idle" /\ wsError = "null"
    /\ latestByDrone = Empty /\ historyByDrone = Empty
    /\ retryCountRef = 0 /\ wsRef = NullSock
    /\ ltEffect = 0 /\ cancelled = {} /\ ltTimers = {}
    /\ queryData = Empty /\ nPoll = 0
    /\ lastMsg = NoMsg /\ streak = [d \in Drones |-> 0]
    /\ accepted = [d \in Drones |-> <<>>]
    /\ selectedId = NoDrone /\ dronesData = <<>>
    /\ nRefresh = 1 /\ nFail = 0 /\ nMsg = 0 /\ nSwitch = 0

\* the number of positions of D1 recorded so far: the i-th position has latitude i
Recorded == IF "D1" \in DOMAIN lastPoints THEN lastPoints["D1"].lat ELSE 0

\* the i-th position: one second after the one before it, but for a silence of more
\* than SEGMENT_GAP_SECONDS after the first and after the third
TrimSample(i) ==
    [json |-> "object",
     obj |-> [latitude |-> i, longitude |-> 0,
              timestamp |-> i + (IF i > 1 THEN SEGMENT_GAP_SECONDS + 1 ELSE 0)
                              + (IF i > 3 THEN SEGMENT_GAP_SECONDS + 1 ELSE 0)]]

\* the next position, or (MaxTrimOverflow times at most) a text that is not JSON
NextTrim ==
    \E c \in DOMAIN socks, now \in NowSeconds,
       data \in {TrimSample(Recorded + 1), [json |-> "invalid"]} :
        /\ Recorded < MAX_POINTS_PER_DRONE + MaxTrimOverflow
        /\ data.json = "invalid" => nMsg - Recorded < MaxTrimOverflow
        /\ DT_OnMessage(c, data, now)

SpecTrim == InitTrim /\ [][NextTrim]_vars

\* ---------------------------------------------------------------- SpecView
\* useLiveTelemetry observing D1 over an open socket: the observed drone changes,
\* sockets open, the streams deliver messages and the polls deliver results.
InitView ==
    /\ socks = (1 :> [drone |-> "D1", rs |-> "OPEN", eff |-> 1])
    /\ nextSock = 2
    /\ dtMounted = FALSE
    /\ tracks = Empty /\ lastPoints = Empty
    /\ socketsRef = Empty /\ retriesRef = Empty
    /\ activeIdsRef = {} /\ dtTimers = {}
    /\ ltMounted = TRUE
    /\ droneId = "D1" /\ streamState = "open" /\ wsError = "null"
    /\ latestByDrone = Empty /\ historyByDrone = Empty
    /\ retryCountRef = 0 /\ wsRef = 1
    /\ ltEffect = 1 /\ cancelled = {} /\ ltTimers = {}
    /\ queryData = Empty /\ nPoll = 0
    /\ lastMsg = NoMsg /\ streak = [d \in Drones |-> 0]
    /\ accepted = [d \in Drones |-> <<>>]
    /\ selectedId = NoDrone /\ dronesData = <<>>
    /\ nRefresh = 0 /\ nFail = 0 /\ nMsg = 0 /\ nSwitch = 0

\* bodies in the backend's raw shape: every numeric field 0 with a recent receipt
\* time; fields null; one event time only
RawBodies ==
    { [id |-> "D1", source_timestamp |-> 0, received_timestamp |-> 95,
       position |-> [lat |-> 0, lon |-> 0, alt_m |-> 0], battery |-> [pct |-> 0],
       derived |-> [heading_deg |-> 0, ground_speed_mps |-> 0, climb_rate_mps |-> 0]],
      [id |-> "D1", last_seen_ts |-> 80, position |-> [alt_m |-> Null],
       battery |-> [pct |-> Null], derived |-> [heading_deg |-> Null]],
      [source_timestamp |-> 99] }

\* the texts the stream delivers to useLiveTelemetry: raw bodies, a sample in the
\* canonical shape, the same sample under an envelope key, a number, and a text
\* that is not JSON
CanonicalSample ==
    [drone_id |-> "D1", timestamp |-> 90, latitude |-> 1, longitude |-> 2,
     battery_percentage |-> 50]

ViewPayloads ==
    { [json |-> "object", obj |-> raw] : raw \in RawBodies }
    \cup
    { [json |-> "object", obj |-> CanonicalSample],
      [json |-> "object", obj |-> [data |-> CanonicalSample]],
      [json |-> "number"],
      [json |-> "invalid"] }

\* the clock values isStale is read at
Clocks == {100000, 105000, 105001, 120000}

NextView ==
    \/ \E d \in Drones : nSwitch < MaxSwitch /\ LT_SetDroneId(d)
    \/ \E c \in DOMAIN socks : LT_OnOpen(c)
    \/ \E c \in DOMAIN socks, data \in ViewPayloads, now \in NowMs :
          nMsg < MaxViewMsg /\ LT_OnMessage(c, data, now)
    \/ \E raw \in RawBodies : nPoll < MaxPoll /\ LT_PollResult(raw)

SpecView == InitView /\ [][NextView]_vars

\* ---------------------------------------------------------------- MapPanel

SIMPLIFY_MAX_POINTS == 160

\* The loop of simplifySegment: segment[i..] is folded into deduped, a point being
\* skipped when it is closer than minDelta (0.00001 degrees) to the last point
\* kept. Coordinates are whole degrees here, so closer than minDelta is closer than 1.
RECURSIVE SimplifyLoop(_, _, _)
SimplifyLoop(segment, i, deduped) ==
    IF i > Len(segment) THEN deduped
    ELSE LET prev == deduped[Len(deduped)]
             curr == segment[i]
         IN  IF Abs(prev.lat - curr.lat) + Abs(prev.lon - curr.lon) < 1
             THEN SimplifyLoop(segment, i + 1, deduped)
             ELSE SimplifyLoop(segment, i + 1, Append(deduped, curr))

\* deduped.filter((_, idx) => idx % step === 0 || idx === deduped.length - 1)
RECURSIVE FilterStep(_, _, _)
FilterStep(deduped, step, i) ==
    IF i > Len(deduped) THEN <<>>
    ELSE IF (i - 1) % step = 0 \/ i = Len(deduped)
         THEN <<deduped[i]>> \o FilterStep(deduped, step, i + 1)
         ELSE FilterStep(deduped, step, i + 1)

simplifySegment(segment, maxPoints) ==
    IF Len(segment) <= 2 THEN segment
    ELSE LET deduped == SimplifyLoop(segment, 2, <<segment[1]>>)
             step == (Len(deduped) + maxPoints - 1) \div maxPoints
         IN  IF Len(deduped) <= maxPoints THEN deduped
             ELSE FilterStep(deduped, step, 1)

\* ---------------------------------------------------------------- App

\* a resolvedSelectedId that trusts the selection without looking at the snapshot
resolvedSelectedId_Trusting ==
    IF selectedId # NoDrone /\ selectedId # "" THEN selectedId
    ELSE IF dronesData # <<>> /\ Len(dronesData[1]) > 0 THEN dronesData[1][1].id
    ELSE NoDrone

\* const resolvedSelectedId = useMemo(...): the id handed to useLiveTelemetry
resolvedSelectedId ==
    LET loaded == dronesData # <<>>
        truthy == selectedId # NoDrone /\ selectedId # ""
    IN  IF truthy /\ loaded
           /\ \E i \in 1..Len(dronesData[1]) : dronesData[1][i].id = selectedId
        THEN selectedId
        ELSE IF ~truthy /\ loaded /\ Len(dronesData[1]) > 0 THEN dronesData[1][1].id
        ELSE IF loaded /\ Len(dronesData[1]) > 0 THEN dronesData[1][1].id
        ELSE NoDrone

\* onSelect={setSelectedId}
App_SetSelectedId(id) ==
    /\ selectedId' = id
    /\ nSwitch' = nSwitch + 1
    /\ UNCHANGED <<socks, nextSock, dtVars, ltVars, dronesData, lastMsg, streak, accepted,
                   nRefresh, nFail, nMsg, nPoll>>

\* the drones query delivers a snapshot
App_DronesResult(snapshot) ==
    /\ dronesData' = <<snapshot>>
    /\ nRefresh' = nRefresh + 1
    /\ UNCHANGED <<socks, nextSock, dtVars, ltVars, selectedId, lastMsg, streak, accepted,
                   nFail, nMsg, nSwitch, nPoll>>

\* ---------------------------------------------------------------- SpecSelect
\* App: the user selects drones while the drones query delivers snapshots.
MaxSelect == 3
MaxSnapshot == 3

\* the snapshots the drones query delivers: the drones of the fleet, in any order,
\* any of them missing
Snapshots ==
    {<<>>} \cup {<<[id |-> d]>> : d \in Drones}
           \cup {<<[id |-> p[1]], [id |-> p[2]]>> : p \in {q \in Drones \X Drones : q[1] # q[2]}}

NextSelect ==
    \/ \E id \in Drones : nSwitch < MaxSelect /\ App_SetSelectedId(id)
    \/ \E snapshot \in Snapshots : nRefresh < MaxSnapshot /\ App_DronesResult(snapshot)

SpecSelect == InitHooks(FALSE, TRUE) /\ [][NextSelect]_vars

\* ---------------------------------------------------------------- properties

\* the sockets of useDroneTracks for drone d that are connecting or open
DT_Live(d) ==
    {c \in DOMAIN socks : socks[c].eff = 0 /\ socks[c].drone = d
                          /\ socks[c].rs \in {"CONNECTING", "OPEN"}}

\* C1: in useDroneTracks every drone has at most one socket that is connecting or
\* open, in every reachable state.
C1_AtMostOneLiveConnection == \A d \in Drones : Cardinality(DT_Live(d)) <= 1

\* C2: a reconnect timer of useDroneTracks that fires while its drone is not in the
\* active set opens no connection (no socket is constructed, none changes, and
\* socketsRef is left alone).
C2_InactiveTimerIsNoOp ==
    [][\A t \in dtTimers :
          (t \notin dtTimers' /\ t.drone \notin activeIdsRef)
          => (nextSock' = nextSock /\ socks' = socks /\ socketsRef' = socketsRef)]_vars

\* C2 witness: the only socket ever constructed failed while its drone was active,
\* the drone then left the active set, and the timer has fired without a connect.
C2_Witness ==
    /\ dtMounted /\ nFail = 1 /\ nextSock = 2 /\ socks = Empty
    /\ dtTimers = {} /\ activeIdsRef = {}
    /\ \E d \in DOMAIN retriesRef : retriesRef[d] = 1

\* C3: in useLiveTelemetry a reconnect timer whose effect instance has been cleaned
\* up (the observed drone changed, or the hook unmounted) opens no connection when
\* it fires and changes neither streamState nor wsRef.
C3_CancelledTimerIsNoOp ==
    [][\A t \in ltTimers :
          (t \notin ltTimers' /\ t.eff \in cancelled)
          => (nextSock' = nextSock /\ socks' = socks /\ streamState' = streamState
              /\ wsRef' = wsRef)]_vars

\* the socket c is stale: its drone left the active set (useDroneTracks), or the
\* effect instance that owns it has been cleaned up (useLiveTelemetry)
Stale(c) ==
    /\ c \in DOMAIN socks
    /\ IF socks[c].eff = 0 THEN socks[c].drone \notin activeIdsRef
       ELSE socks[c].eff \in cancelled

\* C4: a message event on a stale socket changes none of tracks, lastPoints,
\* latestByDrone and historyByDrone.
C4_StaleMessageChangesNothing ==
    [][(nMsg' = nMsg + 1 /\ Stale(lastMsg'.sock))
       => UNCHANGED <<tracks, lastPoints, latestByDrone, historyByDrone>>]_vars

\* the socket the running effect instance of useLiveTelemetry holds open for the
\* observed drone
LT_CurrentOpen ==
    \E c \in DOMAIN socks :
        socks[c].eff = ltEffect /\ socks[c].drone = droneId /\ socks[c].rs = "OPEN"

\* C5: while a drone is observed, periodic polling is off exactly when the current
\* connection of the observed drone is open, and runs every 5 s otherwise.
C5_PollingOffIffOpen ==
    (ltMounted /\ droneId # NoDrone)
    => /\ (RefetchInterval = 0) <=> LT_CurrentOpen
       /\ ~LT_CurrentOpen => RefetchInterval = 5000

\* the identities a socket of useDroneTracks can have within the bounds
SockIds == 1..(MaxRefresh * Len(DroneIds) + MaxFail)
\* the instances the subscription effect can have within the bounds
EffectIds == 1..MaxSwitch

\* C6: once a close has scheduled a reconnect for a drone, then, unless the drone
\* leaves the active set (useDroneTracks) or stops being observed
\* (useLiveTelemetry), a new socket to the same drone is eventually connecting, and
\* useLiveTelemetry reports streamState connecting again.
C6_EventuallyReconnects ==
    /\ \A d \in Drones, c \in SockIds :
          (\E t \in dtTimers : t.sock = c /\ t.drone = d)
          ~> \/ d \notin activeIdsRef
             \/ \E c2 \in DOMAIN socks :
                   /\ c2 > c /\ socks[c2].eff = 0 /\ socks[c2].drone = d
                   /\ socks[c2].rs = "CONNECTING"
    /\ \A d \in Drones, e \in EffectIds :
          (e \notin cancelled /\ \E t \in ltTimers : t.eff = e /\ t.drone = d)
          ~> \/ e \in cancelled
             \/ /\ streamState = "connecting"
                /\ \E c \in DOMAIN socks :
                      socks[c].eff = e /\ socks[c].drone = d
                      /\ socks[c].rs = "CONNECTING"

\* C6 witness: the one socket of the one active drone failed, its timer has fired,
\* and a second socket to the same drone is connecting.
C6_Witness ==
    /\ dtMounted /\ nRefresh = 1 /\ nFail = 1 /\ dtTimers = {}
    /\ \E d \in Drones :
          /\ activeIdsRef = {d}
          /\ DOMAIN socks = {2}
          /\ socks[2].drone = d /\ socks[2].rs = "CONNECTING"

\* C7: every reconnect a close schedules is delayed by min(10000, 1000 * 2^(k-1)) ms,
\* k being the number of reconnects scheduled for that drone since a connection to
\* it last opened; in both hooks.
C7_BackoffSequence ==
    [][/\ \A t \in dtTimers' \ dtTimers :
             t.delay = Min(10000, 1000 * 2 ^ (streak'[t.drone] - 1))
       /\ \A t \in ltTimers' \ ltTimers :
             t.delay = Min(10000, 1000 * 2 ^ (streak'[t.drone] - 1))]_vars

\* the last n elements of a sequence (all of it when it is shorter)
LastN(seq, n) == [i \in 1..Min(n, Len(seq)) |-> seq[Len(seq) - Min(n, Len(seq)) + i]]

\* C8: the history buffer of a drone never holds more than HISTORY_POINTS = 120
\* points, and holds the points of its most recent min(n, 120) accepted samples in
\* arrival order.
C8_HistoryIsLastN ==
    /\ HISTORY_POINTS = 120
    /\ \A d \in Drones :
          LET stored == IF d \in DOMAIN historyByDrone THEN historyByDrone[d] ELSE <<>>
          IN  /\ Len(stored) <= 120
              /\ stored = LastN(accepted[d], 120)

\* C8 witness: more than 120 samples were accepted and the oldest were evicted.
C8_Witness ==
    /\ Len(accepted["D1"]) > 120
    /\ Len(historyByDrone["D1"]) = 120
    /\ historyByDrone["D1"][1] = accepted["D1"][Len(accepted["D1"]) - 119]

\* C9: two consecutive points of a stored segment are at most the segment-gap
\* threshold (20 s) apart in time; so two points recorded one after the other that
\* are further apart lie in different segments.
C9_SegmentGapBounded ==
    /\ SEGMENT_GAP_SECONDS = 20
    /\ \A id \in DOMAIN tracks :
          \A k \in 1..Len(tracks[id]) :
             \A i \in 1..(Len(tracks[id][k]) - 1) :
                Abs(tracks[id][k][i + 1].t - tracks[id][k][i].t) <= 20

\* C9 witness: a drone has a segment of two points 20 s apart, followed by a segment
\* that starts more than 20 s from the end of the one before it.
C9_Witness ==
    \E id \in DOMAIN tracks :
        /\ Len(tracks[id]) = 2
        /\ Len(tracks[id][1]) = 2
        /\ Abs(tracks[id][1][2].t - tracks[id][1][1].t) = 20
        /\ Abs(tracks[id][2][1].t - tracks[id][1][2].t) > 20

\* the last point recorded in the segments of a drone
LastRecorded(segments) == segments[Len(segments)][Len(segments[Len(segments)])]

\* C10: upsertTrack with the last recorded point of a drone returns the track state
\* unchanged, the updater of lastPoints does the same, and a message event that
\* repeats the one before it on the same socket changes neither tracks nor
\* lastPoints.
C10_DuplicateIsIdempotent ==
    [][/\ (nMsg' = nMsg + 1 /\ lastMsg'.dup) => UNCHANGED <<tracks, lastPoints>>
       /\ \A id \in DOMAIN tracks' :
             upsertTrack(tracks', id, LastRecorded(tracks'[id])) = tracks'
       /\ \A id \in DOMAIN lastPoints' :
             updateLastPoints(lastPoints', id, lastPoints'[id]) = lastPoints']_vars

\* C10 witness: a message carrying a position was delivered twice in a row.
C10_Witness ==
    /\ lastMsg.dup /\ lastMsg.data.json = "object"
    /\ Has(lastMsg.data.obj, "latitude") /\ Has(lastMsg.data.obj, "longitude")
    /\ tracks # Empty /\ lastPoints # Empty

\* the points of all segments, in order
Flatten(segments) ==
    LET RECURSIVE Flat(_)
        Flat(i) == IF i > Len(segments) THEN <<>> ELSE segments[i] \o Flat(i + 1)
    IN  Flat(1)

\* output is input without its first segments and without the first points of the
\* segment that follows them: no segment is split, merged, emptied or reordered
SameBoundaries(input, output) ==
    /\ Len(output) <= Len(input)
    /\ \A k \in 1..Len(output) :
          LET seg == input[Len(input) - Len(output) + k]
          IN  /\ Len(output[k]) >= 1
              /\ IF k = 1 THEN output[k] = LastN(seg, Len(output[k]))
                 ELSE output[k] = seg

\* segments appended to a stored track to make inputs of trimSegments above the cap
TrimExtras ==
    LET p == [lat |-> 0, lon |-> 0, t |-> 0]
    IN  {<<>>, <<<<p>>>>, <<<<p, p>>, <<p>>>>}

\* C11: a stored track never holds more than MAX_POINTS_PER_DRONE = 800 points over
\* all its segments and holds the last min(n, 800) of the n points recorded, in
\* order; and trimSegments returns the last min(total, 800) points of its input
\* in the same order and with the same segment boundaries.
C11_TrimKeepsLastPoints ==
    /\ MAX_POINTS_PER_DRONE = 800
    /\ \A id \in DOMAIN tracks :
          /\ SumLen(tracks[id]) <= 800
          /\ \A j \in 1..SumLen(tracks[id]) :
                Flatten(tracks[id])[j].lat = Recorded - Min(Recorded, 800) + j
          /\ \A extra \in TrimExtras :
                LET input == tracks[id] \o extra
                    output == trimSegments(input)
                IN  /\ Flatten(output) = LastN(Flatten(input), 800)
                    /\ SameBoundaries(input, output)

\* C11 witness: more than 800 points were recorded, the first segment was dropped
\* whole and the second has lost its first point.
C11_Witness ==
    /\ Recorded = 802
    /\ SumLen(tracks["D1"]) = 800
    /\ Len(tracks["D1"]) = 2
    /\ Len(tracks["D1"][1]) = 1 /\ tracks["D1"][1][1].lat = 3

\* the points upsertTrack is tried with: gaps below, at and above the threshold, in
\* and out of time order
UpsertPoints == {[lat |-> la, lon |-> 0, t |-> t] : la \in {0, 1}, t \in {0, 5, 20, 40, 41, 62}}

\* the segments of a drone after point is recorded: it joins the last segment when
\* it lies within 20 s of the last point, and starts a segment of its own otherwise
RecordedInto(segments, point) ==
    IF Len(segments) > 0 /\ Abs(point.t - LastRecorded(segments).t) <= 20
    THEN [segments EXCEPT ![Len(segments)] = Append(@, point)]
    ELSE Append(segments, <<point>>)

\* C12: for a point that does not repeat the last one, upsertTrack appends it to the
\* drone's last segment when the last point is at most 20 s away and appends a new
\* one-point segment otherwise; the drone's earlier segments and the other drones'
\* segments stay as they were.  Points at t = 0, 5, 40 give [p0, p5] and [p40].
C12_AppendOrStartSegment ==
    /\ \A id \in Drones, point \in UpsertPoints :
          LET segments == IF id \in DOMAIN tracks THEN tracks[id] ELSE <<>>
              next == upsertTrack(tracks, id, point)
          IN  IF Len(segments) > 0 /\ LastRecorded(segments) = point
              THEN next = tracks
              ELSE /\ DOMAIN next = DOMAIN tracks \cup {id}
                   /\ next[id] = RecordedInto(segments, point)
                   /\ \A k \in 1..(Len(segments) - 1) : next[id][k] = segments[k]
                   /\ \A other \in DOMAIN tracks \ {id} : next[other] = tracks[other]
    /\ LET p0 == [lat |-> 0, lon |-> 0, t |-> 0]
           p5 == [lat |-> 1, lon |-> 1, t |-> 5]
           p40 == [lat |-> 2, lon |-> 2, t |-> 40]
       IN  upsertTrack(upsertTrack(upsertTrack(Empty, "D1", p0), "D1", p5), "D1", p40)
           = ("D1" :> <<(<<p0, p5>>), (<<p40>>)>>)

\* C12 witness: D1 has two points in one segment, recorded around a point of D2,
\* whose track is one segment of one point.
C12_Witness ==
    /\ DOMAIN tracks = {"D1", "D2"}
    /\ Len(tracks["D1"]) = 1 /\ Len(tracks["D1"][1]) = 2
    /\ tracks["D1"][1][2].t - tracks["D1"][1][1].t = 20
    /\ tracks["D2"] = <<(<<[lat |-> 0, lon |-> 0, t |-> 41]>>)>>

\* C13: isStale is true exactly when the clock is more than 10000 ms past the last
\* update time of the current sample, which is its event time in ms when it has
\* one (0 included), else its receipt time in ms; and isStale is true when the
\* sample has neither, or when there is no sample.
C13_StaleIffOlderThanThreshold ==
    \A now \in Clocks :
        isStale(now) <=>
            IF telemetry = <<>> THEN TRUE
            ELSE IF Defined(telemetry[1], "timestamp")
                 THEN now - telemetry[1].timestamp * 1000 > 10000
            ELSE IF Defined(telemetry[1], "received_timestamp")
                 THEN now - telemetry[1].received_timestamp * 1000 > 10000
            ELSE TRUE

\* the numeric fields of a raw body and the fields of the record they become
ZeroFields ==
    { [a |-> "battery", b |-> "pct", k |-> "battery_percentage"],
      [a |-> "position", b |-> "alt_m", k |-> "absolute_altitude_m"],
      [a |-> "derived", b |-> "heading_deg", k |-> "heading_deg"],
      [a |-> "derived", b |-> "climb_rate_mps", k |-> "climb_rate_mps"] }

\* the record (or history point) carries under k the number raw has at a.b, 0
\* included, and carries no number there when raw has none or has null
Carries(raw, a, b, record, k) ==
    IF Defined2(raw, a, b) THEN Has(record, k) /\ record[k] = raw[a][b]
    ELSE ~Defined(record, k)

\* summaries of the drone list: without values, and with values that are not 0
Summaries == {Empty, [battery_pct |-> 77, position |-> [alt_m |-> 30]]}

EnvelopeKeys == {"data", "payload", "telemetry"}

\* C15: a stream message in the canonical shape is normalized to a sample with the
\* same field values, and the same values wrapped one level deep under data,
\* payload or telemetry are normalized to the identical sample; by the handler of
\* useLiveTelemetry (what it stores for the drone) and by normalizeTelemetryMessage.
C15_CanonicalAndEnvelopeAgree ==
    (nMsg > 0 /\ lastMsg.data.json = "object")
    => LET obj == lastMsg.data.obj
           stored == latestByDrone[socks[lastMsg.sock].drone]
       IN  /\ obj = CanonicalSample
              => stored = CanonicalSample /\ normalizeTelemetryMessage(obj) = CanonicalSample
           /\ \A key \in EnvelopeKeys :
                 (DOMAIN obj = {key} /\ obj[key] = CanonicalSample)
                 => /\ stored = CanonicalSample
                    /\ normalizeTelemetryMessage(obj) = CanonicalSample
                    /\ \A other \in EnvelopeKeys :
                          normalizeTelemetryMessage(other :> CanonicalSample)
                          = CanonicalSample

\* the keys by which a payload is recognized: an entity identifier or telemetry
RecognizedKeys ==
    {"id", "drone_id", "latitude", "longitude", "timestamp", "received_timestamp",
     "source_timestamp", "last_seen_ts", "position", "battery", "battery_percentage",
     "absolute_altitude_m", "flight_mode", "flags", "derived", "heading_deg",
     "ground_speed_mps", "climb_rate_mps", "gps_fix", "is_emergency"}

\* the text is not JSON, is not an object, or is an object with no entity
\* identifier and no telemetry field
Unrecognizable(data) ==
    data.json # "object" \/ DOMAIN data.obj \cap RecognizedKeys = {}

\* C16: a stream message that is not valid JSON, is not an object, or has no entity
\* identifier and no telemetry field is dropped silently: the latest samples, the
\* histories, the tracks, the retry counters, the connection state and wsError are
\* all left as they were.
C16_MalformedDroppedSilently ==
    [][(nMsg' = nMsg + 1 /\ Unrecognizable(lastMsg'.data))
       => UNCHANGED <<latestByDrone, historyByDrone, tracks, lastPoints, retriesRef,
                      retryCountRef, streamState, socks, wsError>>]_vars

\* C17: the telemetry returned for the observed drone is the drone's most recently
\* accepted stream sample if one was ever accepted for it, and the latest polled
\* sample otherwise: a message event stores its sample for the drone of its
\* socket, no other event changes a stored stream sample, and a poll result
\* leaves the telemetry returned alone once a stream sample exists.
C17_StreamSampleTakesPrecedence ==
    [][/\ (nMsg' = nMsg + 1 /\ accepted' # accepted)
          => LET d == socks[lastMsg'.sock].drone
                 raw == IF lastMsg'.data.json = "object" THEN lastMsg'.data.obj ELSE Empty
             IN  /\ latestByDrone'[d] = normalizeTelemetry(raw)
                 /\ \A other \in DOMAIN latestByDrone \ {d} :
                       latestByDrone'[other] = latestByDrone[other]
       /\ accepted' = accepted => latestByDrone' = latestByDrone
       /\ droneId' # NoDrone
          => telemetry' = IF accepted'[droneId'] # <<>> THEN <<latestByDrone'[droneId']>>
                          ELSE IF droneId' \in DOMAIN queryData'
                               THEN <<queryData'[droneId']>> ELSE <<>>
       /\ (nPoll' = nPoll + 1 /\ accepted[droneId] # <<>>)
          => telemetry' = telemetry /\ telemetry' = <<latestByDrone[droneId]>>]_vars

\* C17 witness: the observed drone has a stream sample and a different polled
\* sample, and the stream sample is the telemetry returned.
C17_Witness ==
    /\ nPoll > 0 /\ nMsg > 0
    /\ latest # <<>> /\ latestQueryData # <<>> /\ latest # latestQueryData
    /\ telemetry = latest

\* C18: once useDroneTracks has unmounted, none of its sockets is connecting or open
\* (each is closing or closed), in every state from then on; so no connection is
\* opened after the teardown either.
C18_NoConnectionAfterUnmount ==
    ~dtMounted
    => \A c \in DOMAIN socks : socks[c].eff = 0 => socks[c].rs = "CLOSING"

\* C19: a change of the observed drone changes no drone's stored latest sample and
\* no drone's history; a message event changes those of the drone of its socket
\* only; so the history returned for the observed drone is, at any time, the last
\* 120 of the samples accepted for it, whatever was observed in between.
C19_SwitchKeepsPerDroneState ==
    [][/\ droneId' # droneId => UNCHANGED <<latestByDrone, historyByDrone>>
       /\ nMsg' = nMsg + 1
          => LET d == socks[lastMsg'.sock].drone
             IN  /\ \A other \in DOMAIN latestByDrone \ {d} :
                        other \in DOMAIN latestByDrone'
                        /\ latestByDrone'[other] = latestByDrone[other]
                 /\ \A other \in DOMAIN historyByDrone \ {d} :
                        other \in DOMAIN historyByDrone'
                        /\ historyByDrone'[other] = historyByDrone[other]
       /\ droneId' # NoDrone
          => /\ history' = LastN(accepted'[droneId'], HISTORY_POINTS)
             /\ (latest' # <<>>) <=> (accepted'[droneId'] # <<>>)]_vars

\* C19 witness: D1 received a sample over its first socket, the observed drone
\* changed to D2 and back to D1, and D1's sample and history are returned.
C19_Witness ==
    /\ nSwitch = 2 /\ droneId = "D1" /\ lastMsg.sock = 1 /\ nMsg = 1
    /\ Len(accepted["D1"]) = 1
    /\ latest # <<>> /\ history = accepted["D1"]

\* C20: when the reconcile effect of useDroneTracks has run, every active drone has
\* a socket that is connecting or open, and every drone that was tracked (it had a
\* socket entry or a retry counter) and is not active has no such socket and no
\* retry counter.
C20_ReconcileMatchesActiveSet ==
    [][nRefresh' = nRefresh + 1
       => /\ \A d \in activeIdsRef' : DT_Live(d)' # {}
          /\ \A d \in (DOMAIN socketsRef \cup DOMAIN retriesRef) \ activeIdsRef' :
                DT_Live(d)' = {} /\ d \notin DOMAIN retriesRef']_vars

\* C21: while the reconnect timer scheduled by a close of an active drone's socket
\* is pending and the drone stays active, no step of useDroneTracks constructs a
\* socket to that drone; a snapshot refresh in particular constructs none.
C21_NoConnectBeforeTimerFires ==
    [][\A t \in dtTimers \cap dtTimers' :
          (t.drone \in activeIdsRef /\ t.drone \in activeIdsRef')
          => ~\E c \in DOMAIN socks' \ DOMAIN socks :
                 socks'[c].eff = 0 /\ socks'[c].drone = t.drone]_vars

\* the edges of the connection state machine
StreamEdges ==
    { <<"idle", "connecting">>, <<"connecting", "open">>, <<"connecting", "closed">>,
      <<"open", "closed">>, <<"closed", "connecting">> }

\* C22: streamState of useLiveTelemetry changes only along idle -> connecting,
\* connecting -> open, connecting -> closed, open -> closed and
\* closed -> connecting, whatever the events, changes of the observed drone included.
C22_StreamStateEdges ==
    [][streamState' # streamState => <<streamState, streamState'>> \in StreamEdges]_vars

\* the socket c opens in this step
Opens(c) == c \in DOMAIN socks /\ socks[c].rs = "CONNECTING" /\ socks'[c].rs = "OPEN"

\* C23: when a socket opens, the retry counter for it becomes 0 (retriesRef of its
\* drone in useDroneTracks, retryCountRef in useLiveTelemetry), and in
\* useLiveTelemetry streamState becomes open and the stored error is cleared; so
\* the first close that follows an open schedules its reconnect after 1000 ms:
\* in useDroneTracks the first close of the drone since a socket of it opened, in
\* useLiveTelemetry the close of a socket that had opened.
C23_OpenResetsBackoff ==
    [][/\ \A c \in DOMAIN socks \cap DOMAIN socks' :
             Opens(c)
             => IF socks[c].eff = 0
                THEN socks[c].drone \in DOMAIN retriesRef'
                     /\ retriesRef'[socks[c].drone] = 0
                ELSE /\ retryCountRef' = 0
                     /\ ltMounted => streamState' = "open" /\ wsError' = "null"
       /\ \A t \in dtTimers' \ dtTimers :
             streak[t.drone] = 0
             => t.delay = 1000 /\ t.delay = RECONNECT_BASE_DELAY_MS
       /\ \A t \in ltTimers' \ ltTimers :
             (\E c \in DOMAIN socks \ DOMAIN socks' : socks[c].rs = "OPEN")
             => t.delay = 1000 /\ t.delay = RECONNECT_BASE_DELAY_MS]_vars

\* C23 witness: the first socket of the only active drone failed, the second one
\* opened and then failed, and its reconnect is scheduled after 1000 ms again.
C23_Witness ==
    /\ dtMounted /\ nRefresh = 1 /\ nFail = 2 /\ socks = Empty
    /\ \E d \in Drones :
          /\ activeIdsRef = {d} /\ retriesRef = (d :> 1)
          /\ dtTimers = {[sock |-> 2, drone |-> d, delay |-> 1000]}

\* C24: the retry counter is per drone: a close that schedules a reconnect for
\* one drone leaves the counters of the other drones of useDroneTracks alone,
\* and in useLiveTelemetry the first reconnect scheduled for a drone (none
\* scheduled for it since a socket of it last opened, or ever) comes after 1000 ms.
C24_PerEntityBackoff ==
    [][/\ \A t \in dtTimers' \ dtTimers :
             \A d \in Drones \ {t.drone} :
                /\ (d \in DOMAIN retriesRef') = (d \in DOMAIN retriesRef)
                /\ d \in DOMAIN retriesRef => retriesRef'[d] = retriesRef[d]
       /\ \A t \in ltTimers' \ ltTimers :
             streak[t.drone] = 0 => t.delay = RECONNECT_BASE_DELAY_MS]_vars

\* what the map m holds for the key d: <<>> when it holds nothing
Entry(m, d) == IF d \in DOMAIN m THEN <<m[d]>> ELSE <<>>

\* C25: a message handled on the socket opened for drone x changes the stored
\* state of x only: the track, last point, latest sample and history of every
\* other drone stay as they were, whatever the payload.
C25_MessageIsolation ==
    [][nMsg' = nMsg + 1
       => \A d \in Drones \ {socks[lastMsg'.sock].drone} :
             /\ Entry(tracks', d) = Entry(tracks, d)
             /\ Entry(lastPoints', d) = Entry(lastPoints, d)
             /\ Entry(latestByDrone', d) = Entry(latestByDrone, d)
             /\ Entry(historyByDrone', d) = Entry(historyByDrone, d)]_vars

\* C26: within every stored segment of every drone the times of consecutive
\* points never decrease.
C26_SegmentTimesOrdered ==
    \A d \in DOMAIN tracks :
       \A s \in 1..Len(tracks[d]) :
          \A i \in 1..(Len(tracks[d][s]) - 1) :
             tracks[d][s][i].t <= tracks[d][s][i + 1].t

\* r[i..] is found in s[j..] in order
RECURSIVE IsSubsequence(_, _, _, _)
IsSubsequence(r, i, s, j) ==
    IF i > Len(r) THEN TRUE
    ELSE IF j > Len(s) THEN FALSE
    ELSE IF r[i] = s[j] THEN IsSubsequence(r, i + 1, s, j + 1)
    ELSE IsSubsequence(r, i, s, j + 1)

\* C27: what simplifySegment returns for a stored segment is an order-preserving
\* subsequence of the segment that starts with the segment's first point and ends
\* with the segment's last point.
C27_SimplifyKeepsEnds ==
    \A d \in DOMAIN tracks :
       \A s \in 1..Len(tracks[d]) :
          LET segment == tracks[d][s]
              simplified == simplifySegment(segment, SIMPLIFY_MAX_POINTS)
          IN  Len(segment) > 0
              => /\ IsSubsequence(simplified, 1, segment, 1)
                 /\ Len(simplified) > 0
                 /\ simplified[1] = segment[1]
                 /\ simplified[Len(simplified)] = segment[Len(segment)]

\* the sockets of the connection the running effect instance opened last for the
\* observed drone; none is left once that connection has closed
LT_CurrentSocks ==
    { c \in DOMAIN socks : socks[c].eff = ltEffect /\ socks[c].drone = droneId }

\* C28: while a drone is observed, streamState is open only while the connection
\* opened last for that drone is open, and closed only while that connection is
\* closed.
C28_StreamStateIsCurrent ==
    (ltMounted /\ droneId # NoDrone)
    => /\ streamState = "open" => \E c \in LT_CurrentSocks : socks[c].rs = "OPEN"
       /\ streamState = "closed" => LT_CurrentSocks = {}

\* C29: every drone that has a track has a last point, which is the last point of
\* the last segment of its track, and no stored segment is empty.
C29_LastPointIsTrackEnd ==
    \A d \in DOMAIN tracks :
       /\ Len(tracks[d]) > 0
       /\ \A s \in 1..Len(tracks[d]) : Len(tracks[d][s]) > 0
       /\ d \in DOMAIN lastPoints
       /\ lastPoints[d] = LastRecorded(tracks[d])

\* C29 witness: 803 points were recorded, the two oldest segments were dropped
\* whole, and the last point is the 803rd, at the end of the segment that is left.
C29_Witness ==
    /\ Recorded = 803
    /\ SumLen(tracks["D1"]) = 800
    /\ Len(tracks["D1"]) = 1
    /\ tracks["D1"][1][1].lat = 4
    /\ lastPoints["D1"].lat = 803
    /\ tracks["D1"][1][800] = lastPoints["D1"]

\* C30: the id handed to useLiveTelemetry is null exactly when the snapshot is not
\* loaded or is empty; otherwise it is the user's selection when that drone is in
\* the snapshot, and the first drone of the snapshot when it is not.
C30_ResolvedSelection ==
    LET none == dronesData = <<>> \/ Len(dronesData[1]) = 0
    IN  /\ (resolvedSelectedId = NoDrone) <=> none
        /\ ~none
           => resolvedSelectedId =
                 IF \E i \in 1..Len(dronesData[1]) : dronesData[1][i].id = selectedId
                 THEN selectedId
                 ELSE dronesData[1][1].id

\* C30 witness: the drone the user selected has left the snapshot, and the first
\* drone of the snapshot is handed on in its place.
C30_Witness ==
    /\ selectedId = "D1"
    /\ dronesData = <<(<<[id |-> "D2"]>>)>>
    /\ resolvedSelectedId = "D2"

====
